---- MODULE Spec2Model ----
(***************************************************************************)
(* The Worker servicer of training/worker.py: a session table guarded by   *)
(* one mutex, with three handlers (ResetState, ForwardMode, BackwardMode)  *)
(* that run on threads of one process, and the term constructors of        *)
(* timemachine/lib/ops.py that ForwardMode calls.                          *)
(***************************************************************************)
EXTENDS Integers, Sequences, FiniteSets, TLC

\* ---------------------------------------------------------------- bounds
NumThreads == 2
NumKeys == 2
MaxCalls == 3

Threads == 1..NumThreads
Keys == 1..NumKeys
\* every key can hold one session and every thread one more in its locals
ObjIds == 1..(NumKeys + NumThreads)

NoThread == 0
NoSession == 0
NoSystem == 0

VARIABLES
  states,   \* self.states: key -> session object id, NoSession when absent
  mutex,    \* self.mutex: the thread holding it, NoThread when free
  objs,     \* the session objects (ctxt, gradients, force_names, stepper, system)
  pc,       \* where each handler thread stands
  req,      \* the request each thread is serving
  reply,    \* the reply (or the exception) of the call
  sess,     \* each thread's local reference to a session object
  dropped,  \* systems of the sessions the call's table update released
  last,     \* the call answered most recently: its operation, key and outcome
  ncalls,   \* calls begun so far
  call      \* a function called on its own: its arguments and what it returned

vars == <<states, mutex, objs, pc, req, reply, sess, dropped, last, ncalls, call>>

\* ------------------------------------------------------- lib/ops.py terms
OpsNames == {"Nonbonded", "Electrostatics", "LennardJones", "GBSA", "HarmonicBond",
             "Restraint", "CentroidRestraint", "HarmonicAngle", "PeriodicTorsion"}

Term(name, eps, excl) == [name |-> name, eps |-> eps, excl |-> excl]

\* np.float32 / np.float64 chosen from the request's precision string
NumpyPrecision(precision) ==
  IF precision = "single" THEN "float32"
  ELSE IF precision = "double" THEN "float64"
  ELSE "unknown"

\* the _f64 / _f32 variant an ops constructor instantiates
KernelWidth(np_precision) ==
  IF np_precision = "float64" THEN "f64"
  ELSE IF np_precision = "float32" THEN "f32"
  ELSE "Unknown precision"

\* the widths a term object can be instantiated in; any other result of a
\* constructor is the exception it raised
Widths == {"f32", "f64"}

\* a pair added to the set as it was listed, without sorting it
AsListed(pair) == pair

\* src, dst = sorted((src, dst))
Canonical(pair) == IF pair[1] <= pair[2] THEN pair ELSE <<pair[2], pair[1]>>

ExclusionSet(excl) == {Canonical(excl[i]) : i \in 1..Len(excl)}

\* assert len(exclusion_set) == exclusion_idxs.shape[0]
UniqueExclusions(excl) == Cardinality(ExclusionSet(excl)) = Len(excl)

SingularIdxs(eps) == {i \in 1..Len(eps) : eps[i] <= 0}

Nonbonded(term, np_precision) ==
  IF SingularIdxs(term.eps) # {} THEN "Singular eps"
  ELSE IF ~UniqueExclusions(term.excl) THEN "AssertionError"
  ELSE KernelWidth(np_precision)

Electrostatics(term, np_precision) ==
  IF ~UniqueExclusions(term.excl) THEN "AssertionError" ELSE KernelWidth(np_precision)

LennardJones(term, np_precision) ==
  IF ~UniqueExclusions(term.excl) THEN "AssertionError" ELSE KernelWidth(np_precision)

\* getattr(ops, grad_name)(*grad_args, precision=precision): the width of the
\* term built, or the exception the lookup or the constructor raises
OpFn(term, np_precision) ==
  IF term.name \notin OpsNames THEN "AttributeError"
  ELSE IF term.name = "Nonbonded" THEN Nonbonded(term, np_precision)
  ELSE IF term.name = "Electrostatics" THEN Electrostatics(term, np_precision)
  ELSE IF term.name = "LennardJones" THEN LennardJones(term, np_precision)
  ELSE KernelWidth(np_precision)

\* ------------------------------------------------------------- the systems
\* The pickled systems a caller may submit: the (name, args) list of
\* system.gradients, and the dU/dl series [F x T] the stepper reports for it.
SystemIds == 1..4

SystemOf(id) ==
  IF id = 1 THEN
    [gradients |-> <<Term("HarmonicBond", <<>>, <<>>),
                     Term("Nonbonded", <<1, 2>>, <<<<2, 5>>, <<1, 3>>>>)>>,
     du_dls |-> <<<<0, 0>>, <<3, 0>>>>]
  ELSE IF id = 2 THEN
    [gradients |-> <<Term("GBSA", <<>>, <<>>),
                     Term("LennardJones", <<1, 1>>, <<<<1, 2>>>>)>>,
     du_dls |-> <<<<1, 2>>, <<0, 0>>>>]
  ELSE IF id = 3 THEN
    [gradients |-> <<Term("Restraint", <<>>, <<>>)>>,
     du_dls |-> <<<<4, 4>>>>]
  ELSE
    [gradients |-> <<Term("Nonbonded", <<1, 0>>, <<<<1, 2>>>>)>>,
     du_dls |-> <<<<0, 0>>>>]

ForceNames(id) ==
  [i \in 1..Len(SystemOf(id).gradients) |-> SystemOf(id).gradients[i].name]

\* stepper.get_du_dl() after ctxt.forward_mode()
StepperDuDl(id) == SystemOf(id).du_dls

\* ------------------------------------------------------------ the requests
Precisions == {"single", "double", "half"}
Adjoints == {1, 2}

NoRequest ==
  [op |-> "none", key |-> 0, system |-> NoSystem, precision |-> "", inference |-> FALSE,
   adjoint |-> 0]

ResetRequests ==
  {[op |-> "ResetState", key |-> 0, system |-> NoSystem, precision |-> "",
    inference |-> FALSE, adjoint |-> 0]}

ForwardRequests ==
  {[op |-> "ForwardMode", key |-> k, system |-> s, precision |-> p, inference |-> i,
    adjoint |-> 0] : k \in Keys, s \in SystemIds, p \in Precisions, i \in BOOLEAN}

BackwardRequests ==
  {[op |-> "BackwardMode", key |-> k, system |-> NoSystem, precision |-> "",
    inference |-> FALSE, adjoint |-> a] : k \in Keys, a \in Adjoints}

\* ------------------------------------------------------------- the replies
NoReply == [status |-> "none", err |-> "", du_dls |-> <<>>, dl_dps |-> <<>>]

ErrorReply(err) == [status |-> "error", err |-> err, du_dls |-> <<>>, dl_dps |-> <<>>]

EmptyMessage == [status |-> "ok", err |-> "", du_dls |-> <<>>, dl_dps |-> <<>>]

ForwardReply(du_dls) == [status |-> "ok", err |-> "", du_dls |-> du_dls, dl_dps |-> <<>>]

BackwardReply(dl_dps) == [status |-> "ok", err |-> "", du_dls |-> <<>>, dl_dps |-> dl_dps]

\* ----------------------------------------------------- the session objects
Blank ==
  [system |-> NoSystem, terms |-> "none", stepper |-> "none", context |-> "none",
   ctxt |-> "none", du_adj |-> 0, xT_adj |-> FALSE]

\* the gradients, AlchemicalStepper_f64 and ReversibleContext_f64 ForwardMode builds
NewSession(system, np_precision) ==
  [system |-> system, terms |-> KernelWidth(np_precision), stepper |-> "f64",
   context |-> "f64", ctxt |-> "built", du_adj |-> 0, xT_adj |-> FALSE]

Referenced(st, se) == {st[k] : k \in Keys} \cup {se[t] : t \in Threads}

\* reference counting: an object no table entry and no local names is freed
Collect(o, st, se) == [i \in ObjIds |-> IF i \in Referenced(st, se) THEN o[i] ELSE Blank]

FreeIds == ObjIds \ Referenced(states, sess)

NewId == CHOOSE i \in FreeIds : \A j \in FreeIds : i <= j

Live(k) == states[k] # NoSession

SystemsAt(ks) == {objs[states[k]].system : k \in {j \in ks : Live(j)}}

Answered(r, a) == [op |-> r.op, key |-> r.key, status |-> a.status]

\* no function is being called on its own
NoCall == [fn |-> "none"]

\* Worker.__init__: an empty table and a free mutex, no call begun
Constructed ==
  /\ states = [k \in Keys |-> NoSession]
  /\ mutex = NoThread
  /\ objs = [i \in ObjIds |-> Blank]
  /\ pc = [t \in Threads |-> "idle"]
  /\ req = [t \in Threads |-> NoRequest]
  /\ reply = [t \in Threads |-> NoReply]
  /\ sess = [t \in Threads |-> NoSession]
  /\ dropped = [t \in Threads |-> {}]
  /\ last = Answered(NoRequest, NoReply)
  /\ ncalls = 0

worker == <<states, mutex, objs, pc, req, reply, sess, dropped, last, ncalls>>

Init == Constructed /\ call = NoCall

\* ------------------------------------------------------------- the mutex
\* a locked block that returns with the mutex still held
HeldOnReturn(t) == t

\* a handler that enters its block without waiting for the lock
MutexIgnored == TRUE

\* `with self.mutex:` blocks until the lock is free
MutexFree == mutex = NoThread

\* the with-statement's exit when the block returns
ReleaseOnReturn(t) == NoThread

\* acquire()/release() without try/finally: an exception skips the release
HeldOnRaise(t) == t

\* the with-statement's exit when the block raises
ReleaseOnRaise(t) == NoThread

Acquire(t, next) ==
  /\ MutexFree
  /\ mutex' = t
  /\ pc' = [pc EXCEPT ![t] = next]
  /\ UNCHANGED <<states, objs, req, reply, sess, dropped, ncalls, last, call>>

\* an exception leaves the handler: the locals die, the table is as it was,
\* and o is the state the session objects were left in
Raise(t, r, err, o) ==
  /\ pc' = [pc EXCEPT ![t] = "done"]
  /\ req' = [req EXCEPT ![t] = r]
  /\ reply' = [reply EXCEPT ![t] = ErrorReply(err)]
  /\ sess' = [sess EXCEPT ![t] = NoSession]
  /\ mutex' = IF mutex = t THEN ReleaseOnRaise(t) ELSE mutex
  /\ objs' = Collect(o, states, sess')
  /\ UNCHANGED <<states, dropped, last, call>>

\* ------------------------------------------------------------- the calls
\* a pool thread is free to pick up a request and enter its handler
Idle(t) == pc[t] = "idle" /\ ncalls < MaxCalls

\* the reply (or the error) goes back to the caller and the thread is free again
Deliver(t) ==
  /\ pc[t] = "done"
  /\ pc' = [pc EXCEPT ![t] = "idle"]
  /\ req' = [req EXCEPT ![t] = NoRequest]
  /\ reply' = [reply EXCEPT ![t] = NoReply]
  /\ dropped' = [dropped EXCEPT ![t] = {}]
  /\ last' = Answered(req[t], reply[t])
  /\ UNCHANGED <<states, mutex, objs, sess, ncalls, call>>

\* ----------------------------------------------------------- ResetState
ResetBegin(t) ==
  /\ Idle(t)
  /\ \E r \in ResetRequests : req' = [req EXCEPT ![t] = r]
  /\ pc' = [pc EXCEPT ![t] = "r_wait"]
  /\ ncalls' = ncalls + 1
  /\ UNCHANGED <<states, mutex, objs, reply, sess, dropped, last, call>>

ResetAcquire(t) == pc[t] = "r_wait" /\ Acquire(t, "r_locked")

\* a reset that forgets every key but the first
ClearedOne == [k \in Keys |-> IF k = 1 THEN NoSession ELSE states[k]]

\* self.states.clear()
Cleared == [k \in Keys |-> NoSession]

ResetClear(t) ==
  /\ pc[t] = "r_locked"
  /\ states' = Cleared
  /\ dropped' = [dropped EXCEPT ![t] = SystemsAt(Keys)]
  /\ mutex' = ReleaseOnReturn(t)
  /\ reply' = [reply EXCEPT ![t] = EmptyMessage]
  /\ pc' = [pc EXCEPT ![t] = "done"]
  /\ objs' = Collect(objs, states', sess)
  /\ UNCHANGED <<req, sess, ncalls, last, call>>

\* ----------------------------------------------------------- ForwardMode
KnownPrecision(precision) == precision \in {"single", "double"}

TermsBuilt(system, np_precision) ==
  \A i \in 1..Len(SystemOf(system).gradients) :
    OpFn(SystemOf(system).gradients[i], np_precision) \in Widths

\* lines 35-69: precision, the terms, the stepper and the context, before the lock
ForwardBuild(t) ==
  /\ Idle(t)
  /\ ncalls' = ncalls + 1
  /\ \E r \in ForwardRequests :
       IF ~KnownPrecision(r.precision)
         THEN Raise(t, r, "Unknown precision", objs)
       ELSE IF ~TermsBuilt(r.system, NumpyPrecision(r.precision))
         THEN Raise(t, r, "term construction", objs)
       ELSE /\ req' = [req EXCEPT ![t] = r]
            /\ sess' = [sess EXCEPT ![t] = NewId]
            /\ objs' = [objs EXCEPT
                          ![NewId] = NewSession(r.system, NumpyPrecision(r.precision))]
            /\ pc' = [pc EXCEPT ![t] = "f_wait"]
            /\ UNCHANGED <<states, mutex, reply, dropped, last, call>>

ForwardAcquire(t) == pc[t] = "f_wait" /\ Acquire(t, "f_locked")

\* np.all(force_du_dls): no element of the series is zero
NpAll(series) == \A i \in 1..Len(series) : series[i] # 0

Absent == [absent |-> TRUE, series |-> <<>>]

Kept(series) == [absent |-> FALSE, series |-> series]

\* `if np.all(force_du_dls) == 0: None else: force_du_dls`
Strip(series) == IF NpAll(series) = FALSE THEN Absent ELSE Kept(series)

StripDuDls(full_du_dls) == [i \in 1..Len(full_du_dls) |-> Strip(full_du_dls[i])]

\* a store that ignores the inference flag
RetainedAlways(inference) == TRUE

\* `if request.inference is False:`
Retained(inference) == inference = FALSE

\* setdefault instead of assignment: a live key keeps its old session
StoreIfAbsent(key, id) == IF Live(key) THEN states ELSE [states EXCEPT ![key] = id]

\* self.states[request.key] = (ctxt, gradients, force_names, stepper, system)
Store(key, id) == [states EXCEPT ![key] = id]

\* lines 78-112 under the lock: forward_mode, the reply's series, the store
ForwardRun(t) ==
  /\ pc[t] = "f_locked"
  /\ \E ok \in BOOLEAN :
       IF ~ok
         THEN Raise(t, req[t], "forward_mode failed", objs) /\ UNCHANGED ncalls
       ELSE
         /\ states' = IF Retained(req[t].inference) THEN Store(req[t].key, sess[t])
                      ELSE states
         /\ dropped' = [dropped EXCEPT
                          ![t] = IF Retained(req[t].inference)
                                   THEN SystemsAt({req[t].key}) ELSE {}]
         /\ sess' = [sess EXCEPT ![t] = NoSession]
         /\ objs' = Collect([objs EXCEPT ![sess[t]].ctxt = "forward"], states', sess')
         /\ mutex' = ReleaseOnReturn(t)
         /\ reply' = [reply EXCEPT
                        ![t] = ForwardReply(StripDuDls(StepperDuDl(req[t].system)))]
         /\ pc' = [pc EXCEPT ![t] = "done"]
         /\ UNCHANGED <<req, ncalls, last, call>>

\* ---------------------------------------------------------- BackwardMode
\* a lookup that swallows the KeyError and answers with an empty reply
SessionNotFoundIgnored(t, r) ==
  /\ pc' = [pc EXCEPT ![t] = "done"]
  /\ req' = [req EXCEPT ![t] = r]
  /\ reply' = [reply EXCEPT ![t] = BackwardReply(<<>>)]
  /\ UNCHANGED <<states, mutex, objs, sess, dropped, last, call>>

\* line 116 on a key the table does not hold: the subscript raises KeyError
SessionNotFound(t, r) == Raise(t, r, "KeyError", objs)

\* line 116, before the lock: self.states[request.key]
BackwardRead(t) ==
  /\ Idle(t)
  /\ ncalls' = ncalls + 1
  /\ \E r \in BackwardRequests :
       IF ~Live(r.key)
         THEN SessionNotFound(t, r)
       ELSE /\ req' = [req EXCEPT ![t] = r]
            /\ sess' = [sess EXCEPT ![t] = states[r.key]]
            /\ pc' = [pc EXCEPT ![t] = "b_seed"]
            /\ UNCHANGED <<states, mutex, objs, reply, dropped, last, call>>

\* lines 118-121, before the lock: the adjoints are set on the session's
\* stepper and context
BackwardSeed(t) ==
  /\ pc[t] = "b_seed"
  /\ objs' = [objs EXCEPT ![sess[t]].du_adj = req[t].adjoint, ![sess[t]].xT_adj = TRUE]
  /\ pc' = [pc EXCEPT ![t] = "b_wait"]
  /\ UNCHANGED <<states, mutex, req, reply, sess, dropped, ncalls, last, call>>

BackwardAcquire(t) == pc[t] = "b_wait" /\ Acquire(t, "b_locked")

\* what ctxt.backward_mode() leaves of the context
Replayed(ctxt) == IF ctxt = "forward" THEN "backward" ELSE "backward_twice"

\* line 125 under the lock
BackwardReplay(t) ==
  /\ pc[t] = "b_locked"
  /\ LET o == [objs EXCEPT ![sess[t]].ctxt = Replayed(objs[sess[t]].ctxt)]
     IN \E ok \in BOOLEAN :
          IF ~ok
            THEN Raise(t, req[t], "backward_mode failed", o) /\ UNCHANGED ncalls
          ELSE /\ objs' = o
               /\ pc' = [pc EXCEPT ![t] = "b_assemble"]
               /\ UNCHANGED <<states, mutex, req, reply, sess, dropped, ncalls, last, call>>

\* the names the if/elif chain of lines 130-150 knows
GradientNames == {"HarmonicBond", "HarmonicAngle", "PeriodicTorsion", "Nonbonded",
                  "LennardJones", "Electrostatics", "GBSA", "CentroidRestraint"}

\* the tangents the commented-out lines would append for the single-parameter terms
DlDpTangents(f_name, system) ==
  IF f_name \in {"Nonbonded", "GBSA"}
    THEN [none |-> FALSE, of |-> system, pair |-> <<"charge", "second">>]
  ELSE [none |-> FALSE, of |-> system, pair |-> <<"tangents">>]

\* one entry of dl_dps: None, or the pair of tangents read from the term g
DlDp(f_name, system) ==
  IF f_name = "Nonbonded" THEN [none |-> FALSE, of |-> system, pair |-> <<"charge", "lj">>]
  ELSE IF f_name = "GBSA" THEN [none |-> FALSE, of |-> system, pair |-> <<"charge", "gb">>]
  ELSE [none |-> TRUE, of |-> NoSystem, pair |-> <<>>]

\* for f_name, g in zip(force_names, gradients): dl_dps.append(...)
Assembled(force_names, system) ==
  [i \in 1..Len(force_names) |-> DlDp(force_names[i], system)]

\* no name of the list reaches the final else of the chain
Recognized(force_names) ==
  \A i \in 1..Len(force_names) : force_names[i] \in GradientNames

DlDps(system) == Assembled(ForceNames(system), system)

AllRecognized(system) == Recognized(ForceNames(system))

\* a backward pass that leaves the session in the table
DeleteNothing(key) == states

\* del self.states[request.key]
Delete(key) == [states EXCEPT ![key] = NoSession]

\* lines 128-157 under the lock: the gradient list, the delete, the reply
BackwardAssemble(t) ==
  /\ pc[t] = "b_assemble"
  /\ IF ~AllRecognized(objs[sess[t]].system)
       THEN Raise(t, req[t], "Unknown Gradient", objs) /\ UNCHANGED ncalls
     ELSE IF ~Live(req[t].key)
       THEN Raise(t, req[t], "KeyError", objs) /\ UNCHANGED ncalls
     ELSE /\ states' = Delete(req[t].key)
          /\ dropped' = [dropped EXCEPT ![t] = SystemsAt({req[t].key})]
          /\ reply' = [reply EXCEPT ![t] = BackwardReply(DlDps(objs[sess[t]].system))]
          /\ sess' = [sess EXCEPT ![t] = NoSession]
          /\ objs' = Collect(objs, states', sess')
          /\ mutex' = ReleaseOnReturn(t)
          /\ pc' = [pc EXCEPT ![t] = "done"]
          /\ UNCHANGED <<req, ncalls, last, call>>

\* ------------------------------------------------------ the specification
Step(t) ==
  \/ Deliver(t)
  \/ ResetBegin(t)
  \/ ResetAcquire(t)
  \/ ResetClear(t)
  \/ ForwardBuild(t)
  \/ ForwardAcquire(t)
  \/ ForwardRun(t)
  \/ BackwardRead(t)
  \/ BackwardSeed(t)
  \/ BackwardAcquire(t)
  \/ BackwardReplay(t)
  \/ BackwardAssemble(t)

\* the handlers on concurrent threads of one Worker
Next == \E t \in Threads : Step(t)

Spec == Init /\ [][Next]_vars

\* a pool of as many threads as the concurrent model runs
AllThreads == 1..NumThreads

\* serve(): futures.ThreadPoolExecutor(max_workers=1)
MaxWorkers == 1

Workers == 1..MaxWorkers

\* the handlers on the pool serve() builds
NextServe == \E t \in Workers : Step(t)

SpecServe == Init /\ [][NextServe]_vars

\* a call that has begun takes its next step: the handler's code up to the
\* next `with self.mutex`, the acquisition once the mutex is free, the locked
\* block up to its return or its exception, the answer to the caller
Progress(t) == pc[t] # "idle" /\ Step(t)

\* the Worker once it has answered ForwardMode(key, system) and retained the
\* session: the object stored under the key, its context run forward
Serving(key, system, precision) ==
  /\ states = [k \in Keys |-> IF k = key THEN 1 ELSE NoSession]
  /\ mutex = NoThread
  /\ objs = [i \in ObjIds |->
              IF i = 1
                THEN [NewSession(system, NumpyPrecision(precision)) EXCEPT !.ctxt = "forward"]
                ELSE Blank]
  /\ pc = [t \in Threads |-> "idle"]
  /\ req = [t \in Threads |-> NoRequest]
  /\ reply = [t \in Threads |-> NoReply]
  /\ sess = [t \in Threads |-> NoSession]
  /\ dropped = [t \in Threads |-> {}]
  /\ last = [op |-> "ForwardMode", key |-> key, status |-> "ok"]
  /\ ncalls = 1
  /\ call = NoCall

\* one session retained, of any system whose terms construct
InitServing ==
  \E key \in Keys, system \in SystemIds, precision \in {"single", "double"} :
    /\ TermsBuilt(system, NumpyPrecision(precision))
    /\ Serving(key, system, precision)

\* the concurrent handlers under a fair scheduler, with compute calls that
\* return, from the first retained session on
FairSpec == InitServing /\ [][Next]_vars /\ \A t \in Threads : WF_vars(Progress(t))

\* ------------------------------------------- an ops constructor on its own
\* atoms an exclusion pair may name, and pairs an exclusion list may hold
MaxAtoms == 2

MaxExcl == 2

Atoms == 1..MaxAtoms

ExclLists == UNION {[1..n -> Atoms \X Atoms] : n \in 0..MaxExcl}

\* one eps per atom: negative, zero or positive
EpsLists == [Atoms -> {-1, 0, 1}]

NpPrecisions == {"float32", "float64"}

\* getattr(ops, name)(*args, precision=precision) about to be called
OpsCalls ==
  {[fn |-> "ops", term |-> Term(n, e, x), precision |-> p, result |-> "pending"] :
     n \in OpsNames, e \in EpsLists, x \in ExclLists, p \in NpPrecisions}

InitOps == Constructed /\ call \in OpsCalls

\* the constructor runs: it returns a term of some width or raises
Construct ==
  /\ call.fn = "ops"
  /\ call.result = "pending"
  /\ call' = [call EXCEPT !.result = OpFn(call.term, call.precision)]
  /\ UNCHANGED worker

SpecOps == InitOps /\ [][Construct]_vars

\* ------------------------------------- the gradient list BackwardMode builds
\* terms a submitted system may list
MaxTerms == 2

NameLists == UNION {[1..n -> OpsNames] : n \in 0..MaxTerms}

AssembleCalls ==
  {[fn |-> "assemble", force_names |-> ns, dl_dps |-> <<>>, result |-> "pending"] :
     ns \in NameLists}

InitAssemble == Constructed /\ call \in AssembleCalls

\* the loop of lines 129-153 runs on the force_names ForwardMode recorded
Assemble ==
  /\ call.fn = "assemble"
  /\ call.result = "pending"
  /\ IF Recognized(call.force_names)
       THEN call' = [call EXCEPT !.dl_dps = Assembled(call.force_names, NoSystem),
                                 !.result = "returned"]
       ELSE call' = [call EXCEPT !.result = "Unknown Gradient"]
  /\ UNCHANGED worker

SpecAssemble == InitAssemble /\ [][Assemble]_vars

\* ------------------------------------------------ the reversible context
\* ReversibleContext_f64 is compiled code outside the Python sources: its step
\* follows ReferenceLangevinIntegrator.step, its replay the documented inverse.
\* One coordinate of one atom, in exact arithmetic.
MaxSteps == 3

\* stepper.evaluate(x_t) for a harmonic well of force constant k
Grad(k, x_t) == k * x_t

\* the noise of step t, a function of (seed, t) alone
Noise(seed, t) == ((2 * seed + t) % 3) - 1

\* a step that moves the position by the velocity it had before the update
EulerStep(c) ==
  [c EXCEPT !.v_t = c.ca * c.v_t - c.cb * Grad(c.k, c.x_t) + c.cc * Noise(c.seed, c.step),
            !.x_t = c.x_t + c.v_t * c.dt,
            !.step = c.step + 1]

\* v_t = vscale*v_t - fscale*grads + nscale*noise; dx = v_t * dt
ForwardStepped(c) ==
  LET v_next == c.ca * c.v_t - c.cb * Grad(c.k, c.x_t) + c.cc * Noise(c.seed, c.step)
  IN  [c EXCEPT !.v_t = v_next, !.x_t = c.x_t + v_next * c.dt, !.step = c.step + 1]

\* x_t = x_{t+1} - v_{t+1}*dt; v_t = (v_{t+1} + cb*grad(x_t) - cc*eta_t) / ca
BackwardStepped(c) ==
  LET x_prev == c.x_t - c.v_t * c.dt
      t == c.step - 1
  IN  [c EXCEPT !.x_t = x_prev,
                !.v_t = (c.v_t + c.cb * Grad(c.k, x_prev) - c.cc * Noise(c.seed, t)) \div c.ca,
                !.step = t]

\* a context as constructed: coefficients, timestep, seed, x0, v0, steps to run
Contexts ==
  {[fn |-> "ctxt", mode |-> "forward", step |-> 0, steps |-> T,
    ca |-> ca, cb |-> cb, cc |-> cc, dt |-> dt, seed |-> seed, k |-> k,
    x0 |-> x0, v0 |-> v0, x_t |-> x0, v_t |-> v0] :
     T \in 0..MaxSteps, ca \in {1, 2}, cb \in {0, 1}, cc \in {0, 1}, dt \in {1, 2},
     seed \in {0, 1}, k \in {0, 1}, x0 \in {-1, 0, 1}, v0 \in {-1, 0, 1}}

InitContext == Constructed /\ call \in Contexts

\* ctxt.forward_mode(): one step of the trajectory
ForwardStep ==
  /\ call.fn = "ctxt"
  /\ call.mode = "forward"
  /\ call.step < call.steps
  /\ call' = ForwardStepped(call)
  /\ UNCHANGED worker

\* forward_mode() has returned; backward_mode() starts from the final state
BeginBackward ==
  /\ call.fn = "ctxt"
  /\ call.mode = "forward"
  /\ call.step = call.steps
  /\ call' = [call EXCEPT !.mode = "backward"]
  /\ UNCHANGED worker

\* ctxt.backward_mode(): one step of the replay
BackwardStep ==
  /\ call.fn = "ctxt"
  /\ call.mode = "backward"
  /\ call.step > 0
  /\ call' = BackwardStepped(call)
  /\ UNCHANGED worker

NextContext == ForwardStep \/ BeginBackward \/ BackwardStep

SpecContext == InitContext /\ [][NextContext]_vars

\* --------------------------------------------- the frames ForwardMode keeps
\* coordinate frames a context may hold, xs.shape[0]
MaxCoords == 8

Max(a, b) == IF a >= b THEN a ELSE b

\* n_frames taken for the stride itself
IntervalIsCount(shape, n_frames) == n_frames

\* interval = max(1, xs.shape[0]//request.n_frames), for n_frames > 0
Interval(shape, n_frames) == Max(1, shape \div n_frames)

\* the loop over range(xs.shape[0]) appending the indices it keeps
RECURSIVE KeepFrom(_, _, _)
KeepFrom(frame_idx, shape, interval) ==
  IF frame_idx >= shape THEN <<>>
  ELSE IF frame_idx % interval = 0
       THEN <<frame_idx>> \o KeepFrom(frame_idx + 1, shape, interval)
       ELSE KeepFrom(frame_idx + 1, shape, interval)

\* keep_idxs, the indices of the frames of the reply; none when n_frames <= 0
KeepIdxs(shape, n_frames) ==
  IF n_frames > 0 THEN KeepFrom(0, shape, Interval(shape, n_frames)) ELSE <<>>

FramesCalls ==
  {[fn |-> "frames", shape |-> N, n_frames |-> n, keep_idxs |-> <<>>, result |-> "pending"] :
     N \in 1..MaxCoords, n \in -1..(MaxCoords + 1)}

InitFrames == Constructed /\ call \in FramesCalls

\* the frame-selection block of ForwardMode runs on xs and request.n_frames
SelectFrames ==
  /\ call.fn = "frames"
  /\ call.result = "pending"
  /\ call' = [call EXCEPT !.keep_idxs = KeepIdxs(call.shape, call.n_frames),
                          !.result = "returned"]
  /\ UNCHANGED worker

SpecFrames == InitFrames /\ [][SelectFrames]_vars

\* ------------------------------------------------------------ the claims
\* thread t's handler returns in this step, with a reply or an exception
Returns(t) == pc[t] # "done" /\ pc'[t] = "done"

Fails(t) == Returns(t) /\ reply'[t].status = "error"

Succeeds(t, op) == Returns(t) /\ reply'[t].status = "ok" /\ req'[t].op = op

\* thread t takes this step
Steps(t) == pc'[t] # pc[t]

Done(t, op, status) == pc[t] = "done" /\ req[t].op = op /\ reply[t].status = status

\* C1: a BackwardMode(k) that succeeds finds k live and removes exactly the entry
\* for k; a key only becomes live again by a successful ForwardMode(k) that is
\* not inference-only; and a BackwardMode(k) that finds k absent reports KeyError.
C1_BackwardRemovesKey ==
  [][\A t \in Threads :
       /\ Succeeds(t, "BackwardMode") =>
            /\ Live(req[t].key)
            /\ states' = [states EXCEPT ![req[t].key] = NoSession]
       /\ \A k \in Keys :
            (Steps(t) /\ ~Live(k) /\ states'[k] # NoSession) =>
              /\ Succeeds(t, "ForwardMode")
              /\ req[t].key = k
              /\ req[t].inference = FALSE
       /\ (Steps(t) /\ pc[t] = "idle" /\ req'[t].op = "BackwardMode"
             /\ ~Live(req'[t].key)) =>
            /\ pc'[t] = "done"
            /\ reply'[t] = ErrorReply("KeyError")]_vars

\* the call answered last was a successful BackwardMode(k), and the
\* BackwardMode(k) that follows it is answered with KeyError while k is absent
C1_Witness ==
  \E t \in Threads :
    /\ Done(t, "BackwardMode", "error") /\ reply[t].err = "KeyError"
    /\ last = [op |-> "BackwardMode", key |-> req[t].key, status |-> "ok"]
    /\ ~Live(req[t].key)

\* C2: a successful ForwardMode(k, system2) that is not inference-only makes the
\* table hold, for k, the one new session built from system2 (whatever k held
\* before); BackwardMode(k) takes the session the table holds for k, and its
\* gradients are those of that session's system.
C2_ForwardOverwrites ==
  [][\A t \in Threads :
       /\ (Succeeds(t, "ForwardMode") /\ req[t].inference = FALSE) =>
            /\ states'[req[t].key] = sess[t]
            /\ sess[t] \notin {states[k] : k \in Keys}
            /\ objs'[sess[t]] =
                 [NewSession(req[t].system, NumpyPrecision(req[t].precision))
                    EXCEPT !.ctxt = "forward"]
       /\ (Steps(t) /\ pc'[t] = "b_seed") =>
            /\ sess'[t] = states[req'[t].key]
            /\ sess'[t] # NoSession
       /\ Succeeds(t, "BackwardMode") =>
            reply'[t].dl_dps = DlDps(objs[sess[t]].system)]_vars

\* ForwardMode(k, system 2) has replaced the live session of system 1: the
\* table holds for k the session built from system 2, and the old one is gone
C2_Witness ==
  \E t \in Threads :
    /\ Done(t, "ForwardMode", "ok")
    /\ req[t].inference = FALSE /\ req[t].system = 2
    /\ dropped[t] = {1}
    /\ Live(req[t].key)
    /\ objs[states[req[t].key]].system = 2
    /\ \A i \in ObjIds : objs[i].system # 1

\* C3: BackwardMode(k) on an absent key fails at once with KeyError: the thread
\* never enters the backward computation, the mutex is not taken, and the table
\* and the sessions stay as they were.
C3_BackwardOnAbsentKey ==
  [][\A t \in Threads :
       (Steps(t) /\ pc[t] = "idle" /\ req'[t].op = "BackwardMode"
          /\ ~Live(req'[t].key)) =>
         /\ pc'[t] = "done"
         /\ reply'[t] = ErrorReply("KeyError")
         /\ mutex' = mutex
         /\ mutex' # t
         /\ states' = states
         /\ objs' = objs]_vars

\* a BackwardMode on an absent key has failed while another key is live and the
\* mutex is free
C3_Witness ==
  \E t \in Threads : \E k \in Keys :
    /\ Done(t, "BackwardMode", "error") /\ reply[t].err = "KeyError"
    /\ ~Live(req[t].key)
    /\ Live(k)
    /\ mutex = NoThread

\* C4: no step of an inference-only ForwardMode changes the session table; a
\* successful ForwardMode that is not inference-only maps its key to the new
\* session and leaves every other key as it was.
C4_InferenceNotRetained ==
  [][\A t \in Threads :
       /\ (Steps(t) /\ req'[t].op = "ForwardMode" /\ req'[t].inference) =>
            states' = states
       /\ (Succeeds(t, "ForwardMode") /\ req[t].inference = FALSE) =>
            /\ sess[t] # NoSession
            /\ states' = [states EXCEPT ![req[t].key] = sess[t]]]_vars

\* an inference-only ForwardMode(k) has succeeded while k holds the session of
\* another system
C4_Witness ==
  \E t \in Threads :
    /\ Done(t, "ForwardMode", "ok") /\ req[t].inference
    /\ Live(req[t].key)
    /\ objs[states[req[t].key]].system # req[t].system
    /\ dropped[t] = {}

\* C5: ResetState never fails and leaves every key absent; on a table that is
\* already empty it changes neither the table nor the sessions (idempotence).
C5_ResetClears ==
  [][\A t \in Threads :
       (Steps(t) /\ req'[t].op = "ResetState") =>
         /\ reply'[t].status # "error"
         /\ Returns(t) =>
              /\ reply'[t] = EmptyMessage
              /\ states' = [k \in Keys |-> NoSession]
              /\ (states = [k \in Keys |-> NoSession] =>
                    /\ states' = states
                    /\ objs' = objs)]_vars

\* a ResetState has emptied a table that held sessions under two keys
C5_Witness ==
  \E t \in Threads :
    /\ Done(t, "ResetState", "ok")
    /\ Cardinality(dropped[t]) >= 2
    /\ \A k \in Keys : ~Live(k)

\* the compute sections: forward_mode with result collection, backward_mode,
\* gradient assembly
InCompute(t) == pc[t] \in {"f_locked", "b_locked", "b_assemble"}

\* C6: at most one call is inside its compute section, and it holds the mutex.
C6_ComputeSerialized ==
  /\ Cardinality({t \in Threads : InCompute(t)}) <= 1
  /\ \A t \in Threads : InCompute(t) => mutex = t

\* a ForwardMode computes while a ForwardMode for another key waits for the mutex
C6_Witness ==
  \E t, u \in Threads :
    /\ pc[t] = "f_locked" /\ pc[u] = "f_wait"
    /\ req[t].key # req[u].key

\* the calls that have fetched a session in BackwardMode and not yet returned
InBackward(t) == pc[t] \in {"b_seed", "b_wait", "b_locked", "b_assemble"}

\* C7: no session is held by two operations at once: two BackwardMode calls
\* never both obtain and operate on the same session (what reading the table
\* and seeding the adjoints under the mutex would guarantee).
C7_SessionExclusive ==
  \A t, u \in Threads :
    (t # u /\ InBackward(t) /\ InBackward(u)) => sess[t] # sess[u]

\* C8: a call that returns, with a reply or an exception, does not hold the
\* mutex; and no step of a call other than a successful return changes the
\* session table, so a failed ForwardMode or BackwardMode leaves it as it was.
C8_ExitPaths ==
  [][\A t \in Threads :
       /\ Returns(t) => mutex' # t
       /\ (Steps(t) /\ ~(Returns(t) /\ reply'[t].status = "ok")) => states' = states
       /\ Fails(t) => (mutex = t => mutex' = NoThread)]_vars

\* a BackwardMode has failed inside the lock: the mutex is free and its key is
\* still live
C8_Witness ==
  \E t \in Threads :
    /\ Done(t, "BackwardMode", "error")
    /\ reply[t].err = "backward_mode failed"
    /\ mutex = NoThread
    /\ Live(req[t].key)

AllZero(series) == \A i \in 1..Len(series) : series[i] = 0

\* C9: the reply's dU/dl list has one entry per term, an entry is absent exactly
\* when the term's series is zero at every step, and any other series is
\* returned unchanged.
C9_AbsentIffAllZero ==
  \A t \in Threads :
    Done(t, "ForwardMode", "ok") =>
      LET full == StepperDuDl(req[t].system)
      IN /\ Len(reply[t].du_dls) = Len(full)
         /\ \A i \in 1..Len(full) :
              /\ reply[t].du_dls[i].absent <=> AllZero(full[i])
              /\ ~AllZero(full[i]) => reply[t].du_dls[i] = Kept(full[i])

\* the width a request's precision names
RequestedWidth(precision) == IF precision = "single" THEN "f32" ELSE "f64"

\* C10: the terms, the stepper and the context of a session all have the width
\* the ForwardMode request named.
C10_PrecisionSelectsAll ==
  \A t \in Threads :
    (req[t].op = "ForwardMode" /\ sess[t] # NoSession) =>
      /\ objs[sess[t]].terms = RequestedWidth(req[t].precision)
      /\ objs[sess[t]].stepper = RequestedWidth(req[t].precision)
      /\ objs[sess[t]].context = RequestedWidth(req[t].precision)

\* the constructor called on its own has returned or raised
Constructs(names) ==
  call.fn = "ops" /\ call.result # "pending" /\ call.term.name \in names

\* two entries of the list name the same two atoms, in either order
SamePair(excl) ==
  \E i, j \in 1..Len(excl) :
    i < j /\ {excl[i][1], excl[i][2]} = {excl[j][1], excl[j][2]}

\* C11: for Nonbonded, Electrostatics and LennardJones (Nonbonded having passed
\* its eps check), the exclusion check fails exactly when two entries of the
\* list name the same two atoms in either order; the constructor then raises
\* and no term object is instantiated, and otherwise the term is built.
C11_ExclusionsUnique ==
  (/\ Constructs({"Nonbonded", "Electrostatics", "LennardJones"})
   /\ (call.term.name = "Nonbonded" => SingularIdxs(call.term.eps) = {}))
  => /\ SamePair(call.term.excl) <=> call.result = "AssertionError"
     /\ ~SamePair(call.term.excl) <=> call.result \in Widths

\* a list holding a pair and its reverse, as [(2,5), (5,2)], was refused
C11_Witness ==
  /\ Constructs({"LennardJones"})
  /\ call.result = "AssertionError"
  /\ Len(call.term.excl) = 2
  /\ call.term.excl[1] # call.term.excl[2]
  /\ call.term.excl[1] = <<call.term.excl[2][2], call.term.excl[2][1]>>

\* C12: Nonbonded and LennardJones fail to construct when some eps is <= 0.
C12_EpsPositive ==
  (/\ Constructs({"Nonbonded", "LennardJones"})
   /\ \E i \in Atoms : call.term.eps[i] <= 0)
  => call.result \notin Widths

\* C13: a BackwardMode(k) that fails on a term name its dispatch does not know
\* aborts the session: once the call has failed, k is no longer live.
C13_UnknownTermAborts ==
  \A t \in Threads :
    (Done(t, "BackwardMode", "error") /\ reply[t].err = "Unknown Gradient")
    => ~Live(req[t].key)

\* C17: every term name ForwardMode accepts is one BackwardMode's dispatch
\* recognizes: no session that ForwardMode retained holds a term that
\* BackwardMode refuses, and no BackwardMode ends in "Unknown Gradient".
C17_AcceptedIsRecognized ==
  /\ \A k \in Keys : Live(k) => AllRecognized(objs[states[k]].system)
  /\ \A t \in Threads : reply[t].err # "Unknown Gradient"

\* C18: the session a successful BackwardMode(k) removes from the table is the
\* session that call read and replayed, whatever other calls ran meanwhile.
C18_RemovesWhatItRead ==
  [][\A t \in Threads :
       Succeeds(t, "BackwardMode") => states[req[t].key] = sess[t]]_vars

\* the calls that have begun and not yet been answered
InHandler == {t \in Threads : pc[t] # "idle"}

Waiting(t) == pc[t] \in {"r_wait", "f_wait", "b_wait"}

\* C19: on the pool serve() builds, at most one handler runs at a time, and a
\* handler that reaches `with self.mutex` finds the mutex free.
C19_OneHandler ==
  /\ Cardinality(InHandler) <= 1
  /\ \A t \in Threads : Waiting(t) => MutexFree
  /\ mutex # NoThread => InHandler = {mutex}

\* a BackwardMode call stands at `with self.mutex` with a session in hand
C19_Witness ==
  \E t \in Threads : pc[t] = "b_wait" /\ sess[t] # NoSession /\ MutexFree

\* s is max(1, floor(N / n)): the largest s with s * n <= N, and 1 when N < n
IsStride(s, N, n) ==
  IF N < n THEN s = 1 ELSE s * n <= N /\ (s + 1) * n > N

\* C14: with N stored frames and n > 0 requested, the reply holds exactly the
\* frames 0, s, 2s, ... below N for the stride s = max(1, floor(N / n)), frame 0
\* among them; with n <= 0 it holds no frame.
C14_FrameStride ==
  (call.fn = "frames" /\ call.result = "returned") =>
    LET N == call.shape
        n == call.n_frames
        kept == call.keep_idxs
    IN  IF n <= 0 THEN kept = <<>>
        ELSE \E s \in 1..N :
               /\ IsStride(s, N, n)
               /\ kept[1] = 0
               /\ \A j \in 1..Len(kept) : kept[j] = (j - 1) * s
               /\ (Len(kept) - 1) * s < N
               /\ Len(kept) * s >= N

\* seven stored frames and three requested: stride 2 keeps frames 0, 2, 4, 6
C14_Witness ==
  /\ call.fn = "frames"
  /\ call.result = "returned"
  /\ call.shape = 7
  /\ call.n_frames = 3
  /\ call.keep_idxs = <<0, 2, 4, 6>>

\* C16: the reply's dl_dps has one entry per term, in the order the terms were
\* submitted: absent for HarmonicBond, HarmonicAngle, PeriodicTorsion,
\* LennardJones, Electrostatics and CentroidRestraint, and a pair of tangents
\* for Nonbonded and GBSA.
C16_OneEntryPerTerm ==
  (call.fn = "assemble" /\ call.result = "returned") =>
    /\ Len(call.dl_dps) = Len(call.force_names)
    /\ \A i \in 1..Len(call.force_names) :
         /\ call.force_names[i] \in
              {"HarmonicBond", "HarmonicAngle", "PeriodicTorsion", "LennardJones",
               "Electrostatics", "CentroidRestraint"}
            => call.dl_dps[i].none
         /\ call.force_names[i] \in {"Nonbonded", "GBSA"}
            => ~call.dl_dps[i].none /\ Len(call.dl_dps[i].pair) = 2

\* LennardJones then Nonbonded: an absent entry first, a pair second
C16_Witness ==
  /\ call.fn = "assemble"
  /\ call.result = "returned"
  /\ call.force_names = <<"LennardJones", "Nonbonded">>
  /\ call.dl_dps[1].none
  /\ call.dl_dps[2].pair = <<"charge", "lj">>

Started(t) == pc[t] \notin {"idle", "done"}

\* C20: no call acquires the mutex while holding it or waits while holding
\* it, and under a fair scheduler every call that has begun returns, with a
\* reply or an error, and does not hold the mutex when it has.
C20_NoDeadlock ==
  /\ [](\A t \in Threads : mutex = t => Started(t) /\ ~Waiting(t))
  /\ \A t \in Threads : Started(t) ~> (pc[t] = "done" /\ mutex # t)

\* a ForwardMode call waits at the mutex while a BackwardMode call holds it
C20_Witness ==
  \E t, u \in Threads :
    /\ pc[t] = "f_wait"
    /\ mutex = u
    /\ pc[u] \in {"b_locked", "b_assemble"}

====
